---- MODULE Spec2Model ----
(***************************************************************************)
(* Chatbot flow builder (piyush7833/Bite-Speed): the flow validator.       *)
(*                                                                         *)
(* The repository holds two implementations of validateFlow:               *)
(*   - the one with the disconnection, entry-point and no-entry checks     *)
(*     (src/unnamed/part_005), modelled as validateFlow;                   *)
(*   - the entry-point-only one of src/src/utils/validation.ts, modelled   *)
(*     as validateFlow_utils.                                              *)
(* Both are pure functions of a (nodes, edges) snapshot.  The snapshot is  *)
(* drawn by Init; the actions apply the functions to it.                   *)
(***************************************************************************)
EXTENDS Naturals, Sequences, FiniteSets, TLC

VARIABLES
    nodes,        \* the node list (React state of useNodesState)
    edges,        \* the edge list (React state of useEdgesState)
    validator,    \* which validateFlow returned last, "none" before any call
    validation,   \* the ValidationResult of that call
    serializer,   \* which createFlowData returned last, "none" before any call
    serialized,   \* how many times createFlowData was applied (0, 1 or 2)
    flowData,     \* the result of createFlowData on (nodes, edges)
    roundTrip,    \* the result of createFlowData on flowData's own lists
    selectedNode, \* App state: <<>> for null, <<n>> for the node n
    showSettings, \* App state: whether the settings panel is shown
    clock,        \* the reading of Date.now()
    handler,      \* the App handler that ran last, "none" before any
    toasts,       \* the notifications that handler raised, in order
    logged,       \* what that handler wrote to the console: <<>> or <<flowData>>
    focus,        \* document.activeElement: "BODY", a tag name or "contentEditable"
    selectionPending, \* reactflow has a selection change to report
    renderedEdges \* the edge list the onConnect of the last render closed over

valVars == <<validator, validation>>

serVars == <<serializer, serialized, flowData, roundTrip>>

appVars ==
    <<selectedNode, showSettings, clock, handler, toasts, logged, focus,
      selectionPending, renderedEdges>>

vars == <<nodes, edges, valVars, serVars, appVars>>

(* ------------------------------ bounds -------------------------------- *)

\* Size of the universe of node identifiers an edge or a node may carry.
NumIds == 4
\* Longest node list drawn.
MaxNodes == 4
\* Longest edge list drawn.
MaxEdges == 3

(* ---------------------------- data model ------------------------------ *)

\* Node identifiers have the shape the editor gives them: `node-${...}`.
NodeId(i) == "node-" \o ToString(i)

NodeIds == {NodeId(i) : i \in 1..NumIds}

\* A reactflow Node as the validator sees it; only id is read by validateFlow.
MkNode(id) ==
    [id |-> id, type |-> "textNode", position |-> [x |-> 0, y |-> 0],
     data |-> [text |-> "Enter your message here"], selected |-> FALSE]

\* A reactflow Edge; only source and target are read by validateFlow.
MkEdge(s, t) ==
    [id |-> "reactflow__edge-" \o s \o "-" \o t, source |-> s, target |-> t,
     sourceHandle |-> "null", targetHandle |-> "null", selected |-> FALSE]

\* The strictly increasing sequences over 1..top of length at most n: one
\* listing of every subset of 1..top that has at most n elements.
IncreasingSeqs(top, n) ==
    UNION {{s \in [1..k -> 1..top] : \A i \in 1..(k - 1) : s[i] < s[i + 1]} :
           k \in 0..n}

\* The c-th (source, target) pair over the identifier universe, c in 1..NumIds^2.
PairSource(c) == NodeId(((c - 1) \div NumIds) + 1)
PairTarget(c) == NodeId(((c - 1) % NumIds) + 1)

\* Node lists with unique identifiers, in creation order, as
\* `nds.concat(newNode)` builds them.
UniqueNodeLists ==
    {[i \in 1..Len(s) |-> MkNode(NodeId(s[i]))] : s \in IncreasingSeqs(NumIds, MaxNodes)}

\* The node lists drawn: the unique ones, and those whose newest node is
\* there twice (the list after two drops that were given the same identifier).
NodeLists ==
    UniqueNodeLists \cup
    {Append(l, l[Len(l)]) : l \in {u \in UniqueNodeLists : Len(u) > 0 /\ Len(u) < MaxNodes}}

\* The edge lists drawn: any set of (source, target) pairs over the identifier
\* universe, self loops and endpoints missing from the node list included.
EdgeLists ==
    {[i \in 1..Len(s) |-> MkEdge(PairSource(s[i]), PairTarget(s[i]))] :
        s \in IncreasingSeqs(NumIds * NumIds, MaxEdges)}

(* --------------------------- array helpers ---------------------------- *)

\* connectedNodeIds collecting the sources of the edges only.
connectedNodeIds_sourcesOnly(es) == {es[i].source : i \in 1..Len(es)}

\* connectedNodeIds: every id that is the source or the target of an edge.
connectedNodeIds(es) ==
    {es[i].source : i \in 1..Len(es)} \cup {es[i].target : i \in 1..Len(es)}

\* disconnectedNodes.length: the entries of the node list kept by
\* `nodes.filter(node => !connectedNodeIds.has(node.id))`.
disconnectedCount(ns, es) ==
    LET connected == connectedNodeIds(es)
    IN  Cardinality({i \in 1..Len(ns) : ns[i].id \notin connected})

\* edges.some(edge => edge.target === id)
hasIncoming(es, id) == \E i \in 1..Len(es) : es[i].target = id

\* nodesWithoutIncomingEdges.length: the entries of the node list kept by
\* `nodes.filter(node => !edges.some(edge => edge.target === node.id))`.
noIncomingCount(ns, es) ==
    Cardinality({i \in 1..Len(ns) : ~hasIncoming(es, ns[i].id)})

(* ------------------------------ results ------------------------------- *)

Valid == [isValid |-> TRUE]

\* Invalid with the message left out of the object literal.
Invalid_noMessage(msg) == [isValid |-> FALSE]

Invalid(msg) == [isValid |-> FALSE, errorMessage |-> msg]

MsgMultiDisconnected(n) ==
    "Cannot save Flow: " \o ToString(n) \o " nodes are completely disconnected. Please connect all nodes to create a valid conversation flow."

MsgSingleDisconnected ==
    "Cannot save Flow: 1 node is disconnected from the main flow. Please connect all nodes to create a valid conversation path."

MsgMultiEntry(n) ==
    "Cannot save Flow: " \o ToString(n) \o " nodes have no incoming connections. Only one starting node is allowed in a chatbot flow."

MsgNoEntry ==
    "Cannot save Flow: No starting node found. At least one node must have no incoming connections to serve as the conversation entry point."

MsgGeneric == "Cannot save Flow"

(* ----------------------------- validators ----------------------------- *)

\* validateFlow with the early return taken for the empty list only
\* (`nodes.length < 1`).
validateFlow_emptyOnly(ns, es) ==
    IF Len(ns) < 1 THEN Valid
    ELSE LET disconnected == disconnectedCount(ns, es)
             entries      == noIncomingCount(ns, es)
         IN  IF disconnected > 1
                THEN Invalid(MsgMultiDisconnected(disconnected))
             ELSE IF disconnected = 1 /\ Cardinality(connectedNodeIds(es)) > 0
                THEN Invalid(MsgSingleDisconnected)
             ELSE IF entries > 1
                THEN Invalid(MsgMultiEntry(entries))
             ELSE IF Len(ns) > 1 /\ entries = 0
                THEN Invalid(MsgNoEntry)
             ELSE Valid

\* validateFlow with the entry-point limit off by one
\* (`nodesWithoutIncomingEdges.length > 0`).
validateFlow_entryOffByOne(ns, es) ==
    IF Len(ns) <= 1 THEN Valid
    ELSE LET disconnected == disconnectedCount(ns, es)
             entries      == noIncomingCount(ns, es)
         IN  IF disconnected > 1
                THEN Invalid(MsgMultiDisconnected(disconnected))
             ELSE IF disconnected = 1 /\ Cardinality(connectedNodeIds(es)) > 0
                THEN Invalid(MsgSingleDisconnected)
             ELSE IF entries > 0
                THEN Invalid(MsgMultiEntry(entries))
             ELSE IF Len(ns) > 1 /\ entries = 0
                THEN Invalid(MsgNoEntry)
             ELSE Valid

\* validateFlow with the entry-point checks placed before the disconnection
\* checks.
validateFlow_entryFirst(ns, es) ==
    IF Len(ns) <= 1 THEN Valid
    ELSE LET disconnected == disconnectedCount(ns, es)
             entries      == noIncomingCount(ns, es)
         IN  IF entries > 1
                THEN Invalid(MsgMultiEntry(entries))
             ELSE IF Len(ns) > 1 /\ entries = 0
                THEN Invalid(MsgNoEntry)
             ELSE IF disconnected > 1
                THEN Invalid(MsgMultiDisconnected(disconnected))
             ELSE IF disconnected = 1 /\ Cardinality(connectedNodeIds(es)) > 0
                THEN Invalid(MsgSingleDisconnected)
             ELSE Valid

\* validateFlow of src/unnamed/part_005.
validateFlow(ns, es) ==
    IF Len(ns) <= 1 THEN Valid
    ELSE LET disconnected == disconnectedCount(ns, es)
             entries      == noIncomingCount(ns, es)
         IN  IF disconnected > 1
                THEN Invalid(MsgMultiDisconnected(disconnected))
             ELSE IF disconnected = 1 /\ Cardinality(connectedNodeIds(es)) > 0
                THEN Invalid(MsgSingleDisconnected)
             ELSE IF entries > 1
                THEN Invalid(MsgMultiEntry(entries))
             ELSE IF Len(ns) > 1 /\ entries = 0
                THEN Invalid(MsgNoEntry)
             ELSE Valid

\* The entry-point validator asking for exactly one entry node in every flow.
validateFlow_utils_exactlyOne(ns, es) ==
    IF noIncomingCount(ns, es) # 1 THEN Invalid(MsgGeneric)
    ELSE Valid

\* validateFlow of src/src/utils/validation.ts.
validateFlow_utils(ns, es) ==
    IF Len(ns) <= 1 THEN Valid
    ELSE IF noIncomingCount(ns, es) > 1 THEN Invalid(MsgGeneric)
    ELSE Valid

(* ----------------------------- serializers ---------------------------- *)

\* The node projection: `{ id, type, position, data }`.
cleanNode(n) ==
    [id |-> n.id, type |-> n.type, position |-> n.position, data |-> n.data]

\* The edge projection: `{ id, source, target, sourceHandle, targetHandle }`.
cleanEdge(e) ==
    [id |-> e.id, source |-> e.source, target |-> e.target,
     sourceHandle |-> e.sourceHandle, targetHandle |-> e.targetHandle]

\* createFlowData copying every field of its input (`{ ...node }`, `{ ...edge }`).
createFlowData_spread(ns, es) ==
    [nodes |-> [i \in 1..Len(ns) |-> ns[i]],
     edges |-> [i \in 1..Len(es) |-> es[i]]]

\* createFlowData emitting the lists newest first.
createFlowData_reversed(ns, es) ==
    [nodes |-> [i \in 1..Len(ns) |-> cleanNode(ns[Len(ns) + 1 - i])],
     edges |-> [i \in 1..Len(es) |-> cleanEdge(es[Len(es) + 1 - i])]]

\* createFlowData refusing the flows validateFlow rejects.
createFlowData_validating(ns, es) ==
    IF validateFlow(ns, es).isValid
    THEN [nodes |-> [i \in 1..Len(ns) |-> cleanNode(ns[i])],
          edges |-> [i \in 1..Len(es) |-> cleanEdge(es[i])]]
    ELSE [error |-> validateFlow(ns, es).errorMessage]

\* createFlowData namespacing the node identifiers it exports.
createFlowData_prefixedIds(ns, es) ==
    [nodes |-> [i \in 1..Len(ns) |->
                    [cleanNode(ns[i]) EXCEPT !.id = "flow-" \o ns[i].id]],
     edges |-> [i \in 1..Len(es) |-> cleanEdge(es[i])]]

\* createFlowData of src/unnamed/part_005.
createFlowData(ns, es) ==
    [nodes |-> [i \in 1..Len(ns) |-> cleanNode(ns[i])],
     edges |-> [i \in 1..Len(es) |-> cleanEdge(es[i])]]

\* createFlowData of src/src/utils/validation.ts.
createFlowData_utils(ns, es) ==
    [nodes |-> [i \in 1..Len(ns) |->
                    [id |-> ns[i].id, type |-> ns[i].type,
                     position |-> ns[i].position, data |-> ns[i].data]],
     edges |-> [i \in 1..Len(es) |->
                    [id |-> es[i].id, source |-> es[i].source,
                     target |-> es[i].target,
                     sourceHandle |-> es[i].sourceHandle,
                     targetHandle |-> es[i].targetHandle]]]

(* ---------------------------- state machine --------------------------- *)

\* No validateFlow has been called.
ValidatorIdle ==
    /\ validator = "none"
    /\ validation = Valid

\* No createFlowData has been called.
SerializerIdle ==
    /\ serializer = "none"
    /\ serialized = 0
    /\ flowData = [nodes |-> <<>>, edges |-> <<>>]
    /\ roundTrip = [nodes |-> <<>>, edges |-> <<>>]

\* The App as it is mounted: nothing selected, panel hidden, no handler run.
AppIdle ==
    /\ selectedNode = <<>>
    /\ showSettings = FALSE
    /\ clock = 1
    /\ handler = "none"
    /\ toasts = <<>>
    /\ logged = <<>>
    /\ focus = "BODY"
    /\ selectionPending = FALSE
    /\ renderedEdges = edges

Init ==
    /\ nodes \in NodeLists
    /\ edges \in EdgeLists
    /\ ValidatorIdle
    /\ SerializerIdle
    /\ AppIdle

\* A call of validateFlow (part_005) on the snapshot.
Validate ==
    /\ validator = "none"
    /\ validation' = validateFlow(nodes, edges)
    /\ validator' = "part_005"
    /\ UNCHANGED <<nodes, edges, serVars, appVars>>

\* A call of validateFlow (src/utils/validation.ts) on the snapshot.
ValidateUtils ==
    /\ validator = "none"
    /\ validation' = validateFlow_utils(nodes, edges)
    /\ validator' = "utils"
    /\ UNCHANGED <<nodes, edges, serVars, appVars>>

Next == Validate \/ ValidateUtils

Spec == Init /\ [][Next]_vars

(* ------------------------- serializer state machine -------------------- *)

\* Longest node list and longest edge list handed to createFlowData.
MaxSerLen == 2

\* All sequences over S of length at most n, in every order, repeats included.
SeqsUpTo(S, n) == UNION {[1..k -> S] : k \in 0..n}

\* The identifiers of the serializer's sample nodes.
SerNodeIds == {NodeId(1), NodeId(2), NodeId(3)}

\* A node as the canvas holds it after it was selected, dragged and edited:
\* the fields of MkNode and the transient ones the canvas adds.
RenderedNode(id) ==
    [id |-> id, type |-> "textNode", position |-> [x |-> 120, y |-> 80],
     data |-> [text |-> "Hi"], selected |-> TRUE, dragging |-> TRUE,
     width |-> 200, height |-> 90]

\* An edge as the canvas holds it while it is selected.
SelectedEdge(s, t) == [MkEdge(s, t) EXCEPT !.selected = TRUE]

SerNodes == {MkNode(id) : id \in SerNodeIds} \cup {RenderedNode(id) : id \in SerNodeIds}

SerPairs ==
    {<<NodeId(1), NodeId(2)>>, <<NodeId(2), NodeId(1)>>,
     <<NodeId(1), NodeId(3)>>, <<NodeId(2), NodeId(3)>>}

SerEdges ==
    {MkEdge(p[1], p[2]) : p \in SerPairs} \cup {SelectedEdge(p[1], p[2]) : p \in SerPairs}

InitSerialize ==
    /\ nodes \in SeqsUpTo(SerNodes, MaxSerLen)
    /\ edges \in SeqsUpTo(SerEdges, MaxSerLen)
    /\ ValidatorIdle
    /\ SerializerIdle
    /\ AppIdle

\* A call of createFlowData that strips the transient fields from the nodes it
\* was given (`delete node.selected` in the map callback).
Serialize_inPlace ==
    /\ serialized = 0
    /\ flowData' = createFlowData(nodes, edges)
    /\ nodes' = [i \in 1..Len(nodes) |-> cleanNode(nodes[i])]
    /\ serializer' = "part_005"
    /\ serialized' = 1
    /\ UNCHANGED <<edges, valVars, roundTrip, appVars>>

\* A call of createFlowData (part_005) on the snapshot.
Serialize ==
    /\ serialized = 0
    /\ flowData' = createFlowData(nodes, edges)
    /\ serializer' = "part_005"
    /\ serialized' = 1
    /\ UNCHANGED <<nodes, edges, valVars, roundTrip, appVars>>

\* A call of createFlowData (src/utils/validation.ts) on the snapshot.
SerializeUtils ==
    /\ serialized = 0
    /\ flowData' = createFlowData_utils(nodes, edges)
    /\ serializer' = "utils"
    /\ serialized' = 1
    /\ UNCHANGED <<nodes, edges, valVars, roundTrip, appVars>>

\* The output fed back in as the node and edge lists of a second call of the
\* same createFlowData.
Reserialize ==
    /\ serialized = 1
    /\ roundTrip' = IF serializer = "part_005"
                    THEN createFlowData(flowData.nodes, flowData.edges)
                    ELSE createFlowData_utils(flowData.nodes, flowData.edges)
    /\ serialized' = 2
    /\ UNCHANGED <<nodes, edges, valVars, serializer, flowData, appVars>>

NextSerialize == Serialize \/ SerializeUtils \/ Reserialize

SpecSerialize == InitSerialize /\ [][NextSerialize]_vars

(* ------------------------- vocabulary of the claims -------------------- *)

\* Some call of a validateFlow has returned.
Called == validator # "none"

\* The call accepted: isValid = true and no errorMessage.
Accepted == validation = [isValid |-> TRUE]

\* The call rejected with exactly this reason.
RejectedWith(msg) == validation = [isValid |-> FALSE, errorMessage |-> msg]

\* No two entries of the node list share an identifier.
UniqueIds(ns) == \A i, j \in 1..Len(ns) : ns[i].id = ns[j].id => i = j

\* The entries of the node list that no edge names, as source or as target.
InNoEdge(ns, es) ==
    {i \in 1..Len(ns) :
        \A e \in 1..Len(es) : es[e].source # ns[i].id /\ es[e].target # ns[i].id}

\* The entries of the node list that no edge targets (in-degree zero).
InDegreeZero(ns, es) ==
    {i \in 1..Len(ns) : \A e \in 1..Len(es) : es[e].target # ns[i].id}

\* The identifiers joined to those of `seen` by edges taken in either direction.
RECURSIVE Island(_, _)
Island(seen, es) ==
    LET more == seen
                \cup {es[e].target : e \in {k \in 1..Len(es) : es[k].source \in seen}}
                \cup {es[e].source : e \in {k \in 1..Len(es) : es[k].target \in seen}}
    IN  IF more = seen THEN seen ELSE Island(more, es)

\* All nodes lie in one weakly connected component of the edge graph.
SingleIsland(ns, es) ==
    Len(ns) = 0 \/ \A i \in 1..Len(ns) : ns[i].id \in Island({ns[1].id}, es)

\* Some edge names an identifier that no node of the list carries.
HasDanglingEdge(ns, es) ==
    \E e \in 1..Len(es) : \A i \in 1..Len(ns) : ns[i].id # es[e].source

\* The documented input domain: unique node identifiers, and every edge
\* running between two nodes of the list.
WellFormed(ns, es) ==
    /\ UniqueIds(ns)
    /\ \A e \in 1..Len(es) :
          /\ \E i \in 1..Len(ns) : ns[i].id = es[e].source
          /\ \E i \in 1..Len(ns) : ns[i].id = es[e].target

(* -------------------------------- claims ------------------------------ *)

\* C1: every validateFlow accepts (isValid = true, no errorMessage) a snapshot
\* of 0 or 1 nodes, whatever the edge list, edges naming nodes that are not in
\* the list included.
C1_TrivialFlowsAccepted == (Called /\ Len(nodes) <= 1) => Accepted

\* C1 witness: one node, an edge whose source is not in the node list, accepted
\* by the validator with the disconnection checks.
C1_Witness ==
    /\ validator = "part_005"
    /\ Len(nodes) = 1
    /\ HasDanglingEdge(nodes, edges)
    /\ Accepted

\* C2 (as claimed, for every validateFlow of the repository, on well-formed
\* snapshots): with at least 2 nodes of which k >= 2 are in no edge, the call
\* rejects with the "k nodes are completely disconnected" reason.
C2_MultiDisconnectedReason ==
    (Called /\ WellFormed(nodes, edges)
        /\ Len(nodes) >= 2 /\ Cardinality(InNoEdge(nodes, edges)) >= 2)
        => RejectedWith(MsgMultiDisconnected(Cardinality(InNoEdge(nodes, edges))))

\* Lemma: the validateFlow with the disconnection checks does what C2 says, on
\* every snapshot.
Part005_MultiDisconnectedReason ==
    (validator = "part_005"
        /\ Len(nodes) >= 2 /\ Cardinality(InNoEdge(nodes, edges)) >= 2)
        => RejectedWith(MsgMultiDisconnected(Cardinality(InNoEdge(nodes, edges))))

\* C3 (as claimed, for every validateFlow of the repository, on well-formed
\* snapshots): with at least 2 nodes, exactly one of them in no edge, and at
\* least one edge, the call rejects with the single-orphan reason.
C3_SingleOrphanReason ==
    (Called /\ WellFormed(nodes, edges)
        /\ Len(nodes) >= 2 /\ Cardinality(InNoEdge(nodes, edges)) = 1
        /\ Len(edges) >= 1)
        => RejectedWith(MsgSingleDisconnected)

\* Lemma: the validateFlow with the disconnection checks does what C3 says, on
\* every snapshot.
Part005_SingleOrphanReason ==
    (validator = "part_005"
        /\ Len(nodes) >= 2 /\ Cardinality(InNoEdge(nodes, edges)) = 1
        /\ Len(edges) >= 1)
        => RejectedWith(MsgSingleDisconnected)

\* C4 (as claimed, for every validateFlow of the repository, on well-formed
\* snapshots): with at least 2 nodes, each of them in some edge, and N >= 2 of
\* them targeted by no edge, the call rejects with the "N nodes have no
\* incoming connections" reason.
C4_MultiEntryReason ==
    (Called /\ WellFormed(nodes, edges)
        /\ Len(nodes) >= 2 /\ InNoEdge(nodes, edges) = {}
        /\ Cardinality(InDegreeZero(nodes, edges)) >= 2)
        => RejectedWith(MsgMultiEntry(Cardinality(InDegreeZero(nodes, edges))))

\* Lemma: the validateFlow with the disconnection checks does what C4 says, on
\* every snapshot.
Part005_MultiEntryReason ==
    (validator = "part_005"
        /\ Len(nodes) >= 2 /\ InNoEdge(nodes, edges) = {}
        /\ Cardinality(InDegreeZero(nodes, edges)) >= 2)
        => RejectedWith(MsgMultiEntry(Cardinality(InDegreeZero(nodes, edges))))

\* C5 (as claimed, for every validateFlow of the repository, on well-formed
\* snapshots): with at least 2 nodes, each the target of some edge, the call
\* rejects with the "No starting node found" reason.
C5_NoEntryReason ==
    (Called /\ WellFormed(nodes, edges)
        /\ Len(nodes) >= 2 /\ InDegreeZero(nodes, edges) = {})
        => RejectedWith(MsgNoEntry)

\* Lemma: the validateFlow with the disconnection checks does what C5 says, on
\* every snapshot.
Part005_NoEntryReason ==
    (validator = "part_005" /\ Len(nodes) >= 2 /\ InDegreeZero(nodes, edges) = {})
        => RejectedWith(MsgNoEntry)

\* C6: the validateFlow with the disconnection checks accepts every snapshot of
\* at least 2 uniquely identified nodes in which each node is in some edge and
\* exactly one node is targeted by no edge.
C6_SingleEntryAccepted ==
    (validator = "part_005" /\ Len(nodes) >= 2 /\ UniqueIds(nodes)
        /\ InNoEdge(nodes, edges) = {}
        /\ Cardinality(InDegreeZero(nodes, edges)) = 1)
        => Accepted

\* C6 witness: the linear chain node-1 -> node-2 -> node-3, accepted.
C6_Witness ==
    /\ validator = "part_005"
    /\ Len(nodes) = 3 /\ UniqueIds(nodes)
    /\ Len(edges) = 2
    /\ edges[1].source = nodes[1].id /\ edges[1].target = nodes[2].id
    /\ edges[2].source = nodes[2].id /\ edges[2].target = nodes[3].id
    /\ Accepted

\* C7: in the validateFlow with the disconnection checks, a snapshot of at
\* least 2 nodes with 2 or more nodes in no edge, or with exactly one such node
\* and at least one edge, is rejected with a disconnection reason, never with
\* the "no incoming connections" or the "no starting node" reason.
C7_DisconnectionCheckFirst ==
    (validator = "part_005" /\ Len(nodes) >= 2
        /\ (\/ Cardinality(InNoEdge(nodes, edges)) >= 2
            \/ Cardinality(InNoEdge(nodes, edges)) = 1 /\ Len(edges) >= 1))
        => /\ \/ RejectedWith(MsgMultiDisconnected(Cardinality(InNoEdge(nodes, edges))))
              \/ RejectedWith(MsgSingleDisconnected)
           /\ ~RejectedWith(MsgMultiEntry(Cardinality(InDegreeZero(nodes, edges))))
           /\ ~RejectedWith(MsgNoEntry)

\* C7 witness: a node in no edge while the entry-candidate count is not 1
\* either, rejected with a disconnection reason.
C7_Witness ==
    /\ validator = "part_005"
    /\ Len(nodes) >= 2 /\ Len(edges) >= 1
    /\ Cardinality(InNoEdge(nodes, edges)) = 1
    /\ Cardinality(InDegreeZero(nodes, edges)) >= 2
    /\ RejectedWith(MsgSingleDisconnected)

\* C8 (as claimed, for every validateFlow of the repository): an accepted
\* snapshot of at least 2 uniquely identified nodes has exactly one node of
\* in-degree zero and no node that is in no edge.
C8_AcceptedShape ==
    (Called /\ WellFormed(nodes, edges) /\ Len(nodes) >= 2 /\ Accepted)
        => /\ Cardinality(InDegreeZero(nodes, edges)) = 1
           /\ InNoEdge(nodes, edges) = {}

\* Lemma: what the validateFlow with the disconnection checks accepts has the
\* shape C8 says, on every snapshot of at least 2 nodes.
Part005_AcceptedShape ==
    (validator = "part_005" /\ Len(nodes) >= 2 /\ Accepted)
        => /\ Cardinality(InDegreeZero(nodes, edges)) = 1
           /\ InNoEdge(nodes, edges) = {}

\* C9 (as claimed, on well-formed snapshots): a flow of at least 2 nodes
\* accepted by the validateFlow with the disconnection checks is a single
\* island, all its nodes in one weakly connected component of the edge graph.
C9_AcceptedSingleIsland ==
    (validator = "part_005" /\ WellFormed(nodes, edges)
        /\ Len(nodes) >= 2 /\ Accepted)
        => SingleIsland(nodes, edges)

\* C10: every validateFlow is total on snapshots with unique node identifiers,
\* and its result is either isValid = true with no errorMessage or
\* isValid = false with a non-empty errorMessage.
C10_TotalWellFormedResult ==
    (Called /\ UniqueIds(nodes))
        => \/ validation = [isValid |-> TRUE]
           \/ /\ DOMAIN validation = {"isValid", "errorMessage"}
              /\ validation.isValid = FALSE
              /\ validation.errorMessage # ""

\* C10 witness: a rejection that carries a reason, on unique identifiers with
\* an edge naming a node that is not in the list.
C10_Witness ==
    /\ Called /\ UniqueIds(nodes)
    /\ HasDanglingEdge(nodes, edges)
    /\ DOMAIN validation = {"isValid", "errorMessage"}
    /\ validation.isValid = FALSE
    /\ validation.errorMessage # ""

\* The four specific reasons a rejection may carry, the counts being those of
\* the snapshot.
SpecificReasons(ns, es) ==
    {MsgMultiDisconnected(Cardinality(InNoEdge(ns, es))),
     MsgSingleDisconnected,
     MsgMultiEntry(Cardinality(InDegreeZero(ns, es))),
     MsgNoEntry}

\* C11 (as claimed, for every validateFlow of the repository, on well-formed
\* snapshots): a rejection carries one of the four specific reasons, never
\* only a generic message.
C11_SpecificReasonOnly ==
    (Called /\ WellFormed(nodes, edges) /\ ~validation.isValid)
        => validation.errorMessage \in SpecificReasons(nodes, edges)

\* Lemma: every rejection by the validateFlow with the disconnection checks
\* carries one of the four specific reasons, on every snapshot.
Part005_SpecificReasonOnly ==
    (validator = "part_005" /\ ~validation.isValid)
        => validation.errorMessage \in SpecificReasons(nodes, edges)

(* --------------------------- serializer claims ------------------------- *)

\* C13: createFlowData (either implementation) emits for each input node
\* exactly the fields id, type, position, data and for each input edge exactly
\* id, source, target, sourceHandle, targetHandle, each with the input's value;
\* no transient field of the input appears in the output.
C13_ExactFields ==
    (serialized >= 1)
        => /\ DOMAIN flowData = {"nodes", "edges"}
           /\ DOMAIN flowData.nodes = 1..Len(nodes)
           /\ DOMAIN flowData.edges = 1..Len(edges)
           /\ \A i \in 1..Len(nodes) :
                /\ DOMAIN flowData.nodes[i] = {"id", "type", "position", "data"}
                /\ flowData.nodes[i].id = nodes[i].id
                /\ flowData.nodes[i].type = nodes[i].type
                /\ flowData.nodes[i].position = nodes[i].position
                /\ flowData.nodes[i].data = nodes[i].data
           /\ \A i \in 1..Len(edges) :
                /\ DOMAIN flowData.edges[i] =
                      {"id", "source", "target", "sourceHandle", "targetHandle"}
                /\ flowData.edges[i].id = edges[i].id
                /\ flowData.edges[i].source = edges[i].source
                /\ flowData.edges[i].target = edges[i].target
                /\ flowData.edges[i].sourceHandle = edges[i].sourceHandle
                /\ flowData.edges[i].targetHandle = edges[i].targetHandle

\* C13 witness: a selected, dragging node and a selected edge went in, and the
\* output carries neither field.
C13_Witness ==
    /\ serialized >= 1
    /\ Len(nodes) >= 1 /\ Len(edges) >= 1
    /\ "dragging" \in DOMAIN nodes[1] /\ nodes[1].selected
    /\ edges[1].selected
    /\ "selected" \notin DOMAIN flowData.nodes[1]
    /\ "dragging" \notin DOMAIN flowData.nodes[1]
    /\ "selected" \notin DOMAIN flowData.edges[1]

\* C14: createFlowData (part_005) preserves length and order: the output lists
\* are as long as the input lists and their i-th elements carry the id of the
\* i-th input node and of the i-th input edge.
C14_OrderPreserved ==
    (serializer = "part_005")
        => /\ Len(flowData.nodes) = Len(nodes)
           /\ Len(flowData.edges) = Len(edges)
           /\ \A i \in 1..Len(nodes) : flowData.nodes[i].id = nodes[i].id
           /\ \A i \in 1..Len(edges) : flowData.edges[i].id = edges[i].id

\* C14 witness: an input that is not in creation order (node-2 before node-1,
\* and two different edges), serialized.
C14_Witness ==
    /\ serializer = "part_005"
    /\ Len(nodes) = 2 /\ nodes[1].id = NodeId(2) /\ nodes[2].id = NodeId(1)
    /\ Len(edges) = 2 /\ edges[1].id # edges[2].id
    /\ flowData.nodes[1].id = NodeId(2)

\* C15: createFlowData (part_005) performs no validation: on a snapshot that
\* validateFlow rejects it still returns the projection of both lists, and
\* nothing that signals an error.
C15_NoValidation ==
    (serializer = "part_005" /\ ~validateFlow(nodes, edges).isValid)
        => /\ DOMAIN flowData = {"nodes", "edges"}
           /\ Len(flowData.nodes) = Len(nodes)
           /\ Len(flowData.edges) = Len(edges)

\* C15 witness: two nodes whose edges both run to a node that is not in the
\* list (two entry nodes, dangling edges), rejected by validateFlow and
\* serialized all the same.
C15_Witness ==
    /\ serializer = "part_005"
    /\ Len(nodes) = 2 /\ nodes[1].id = NodeId(1) /\ nodes[2].id = NodeId(2)
    /\ Len(edges) = 2
    /\ edges[1].source = NodeId(1) /\ edges[1].target = NodeId(3)
    /\ edges[2].source = NodeId(2) /\ edges[2].target = NodeId(3)
    /\ validateFlow(nodes, edges) = Invalid(MsgMultiEntry(2))
    /\ Len(flowData.nodes) = 2 /\ Len(flowData.edges) = 2

\* C16: a call of createFlowData leaves the node list and the edge list it was
\* given as they were: same length, order and field values, the transient
\* fields included.
C16_InputUnchanged ==
    [][(serialized' = 1 /\ serialized = 0) => (nodes' = nodes /\ edges' = edges)]_vars

\* C16 witness: after a call the input node still carries selected = true and
\* its dragging field.
C16_Witness ==
    /\ serializer = "part_005"
    /\ Len(nodes) >= 1
    /\ "dragging" \in DOMAIN nodes[1] /\ nodes[1].selected

\* C17: serializing the output of createFlowData (part_005) again yields an
\* output equal to the first one.
C17_RoundTrip ==
    (serializer = "part_005" /\ serialized = 2) => roundTrip = flowData

\* C17 witness: a second pass over a non-empty output whose input carried
\* transient fields.
C17_Witness ==
    /\ serializer = "part_005" /\ serialized = 2
    /\ Len(nodes) >= 1 /\ Len(edges) >= 1
    /\ "dragging" \in DOMAIN nodes[1]
    /\ roundTrip = flowData
    /\ Len(roundTrip.nodes) = Len(nodes)

(* ------------------------------ the App -------------------------------- *)
(* The flow builder component (part_001).  Each action is one handler run   *)
(* to completion on the committed state: React flushes the updates of a     *)
(* discrete event before the next event is dispatched.  The locals of       *)
(* handleSave (validation, flowData) are held in valVars and serVars and    *)
(* are gone once another handler runs; toasts and logged hold what the last *)
(* handler showed and wrote.                                                *)

\* The most nodes on the canvas, and the last reading of the clock.
MaxAppNodes == 2
MaxClock == 2

\* A text typed into the settings panel.
EditedText == "Hi"

IdsOf(s) == {s[i].id : i \in 1..Len(s)}

SelectedOf(s) == SelectSeq(s, LAMBDA x : x.selected)

\* The nodes as reactflow's store holds them once the node list has been
\* rendered: a map keyed by id, so one entry per identifier, at the place of
\* the first node list entry of that identifier and holding the last one.
StoreNodes(ns) ==
    LET last(i) == CHOOSE k \in i..Len(ns) :
                       /\ ns[k].id = ns[i].id
                       /\ \A j \in (k + 1)..Len(ns) : ns[j].id # ns[i].id
        firsts == SelectSeq([i \in 1..Len(ns) |-> i], LAMBDA i :
                      \A j \in 1..(i - 1) : ns[j].id # ns[i].id)
    IN  [k \in 1..Len(firsts) |-> ns[last(firsts[k])]]

\* What reactflow compares to see whether the selection changed: the
\* identifiers of the selected nodes of its store and of the selected edges.
StoreSelection(ns, es) ==
    LET selN == SelectedOf(StoreNodes(ns))
        selE == SelectedOf(es)
    IN  <<[i \in 1..Len(selN) |-> selN[i].id],
          [i \in 1..Len(selE) |-> selE[i].id]>>

\* After a handler changed the node list or the edge list: reactflow has a
\* selection change to report when the selection of its store is no longer
\* the one it was, and still has one when it had one before.
SelectionDue ==
    selectionPending' =
        (\/ selectionPending
         \/ StoreSelection(nodes', edges') # StoreSelection(nodes, edges))

Toast(kind, message) == [kind |-> kind, message |-> message]

MsgOneOutgoing == "Each node can only have one outgoing connection"

MsgSaved == "Flow saved successfully! Check console for details."

MsgDeletedNodes(n) ==
    "Deleted " \o ToString(n) \o " node" \o (IF n > 1 THEN "s" ELSE "")

MsgDeletedEdges(n) ==
    "Deleted " \o ToString(n) \o " connection" \o (IF n > 1 THEN "s" ELSE "")

\* reactflow's addEdge: the list itself when it already holds an edge with the
\* same source, target and handles, else the list with the new edge appended.
addEdge(s, t, es) ==
    IF \E i \in 1..Len(es) :
           /\ es[i].source = s
           /\ es[i].target = t
           /\ es[i].sourceHandle = "null"
           /\ es[i].targetHandle = "null"
    THEN es
    ELSE Append(es, MkEdge(s, t))

\* The locals of an earlier handleSave are out of scope.
SaveLocalsGone ==
    /\ validator' = "none"
    /\ validation' = Valid
    /\ serializer' = "none"
    /\ serialized' = 0
    /\ flowData' = [nodes |-> <<>>, edges |-> <<>>]
    /\ roundTrip' = [nodes |-> <<>>, edges |-> <<>>]

InitApp ==
    /\ nodes = <<>>
    /\ edges = <<>>
    /\ ValidatorIdle
    /\ SerializerIdle
    /\ AppIdle

\* onDrop of a palette item: a node named after the clock reading is appended.
\* The clock may not have advanced since the previous drop.
onDrop ==
    /\ Len(nodes) < MaxAppNodes
    /\ \E t \in clock..MaxClock :
           /\ clock' = t
           /\ nodes' = Append(nodes, MkNode(NodeId(t)))
    /\ handler' = "onDrop"
    /\ toasts' = <<>>
    /\ logged' = <<>>
    /\ SaveLocalsGone
    /\ UNCHANGED <<edges, selectedNode, showSettings, focus>>
    /\ SelectionDue
    /\ renderedEdges' = edges'

\* The onConnect callback that refuses a connection when its target already
\* has an incoming edge.
Connect_targetChecked(s, t) ==
    /\ IF \E i \in 1..Len(renderedEdges) :
              /\ renderedEdges[i].target = t
              /\ renderedEdges[i].targetHandle = "null"
       THEN /\ toasts' = <<Toast("error", MsgOneOutgoing)>>
            /\ edges' = edges
       ELSE /\ toasts' = <<>>
            /\ edges' = addEdge(s, t, edges)
    /\ handler' = "onConnect"
    /\ logged' = <<>>
    /\ SaveLocalsGone
    /\ UNCHANGED <<nodes, selectedNode, showSettings, clock, focus,
                   selectionPending>>

\* The onConnect callback that, on a source that already has an edge, shows
\* the error and swaps the old edge for the new one.
Connect_replacing(s, t) ==
    /\ IF \E i \in 1..Len(renderedEdges) :
              /\ renderedEdges[i].source = s
              /\ renderedEdges[i].sourceHandle = "null"
       THEN /\ toasts' = <<Toast("error", MsgOneOutgoing)>>
            /\ edges' = addEdge(s, t,
                                SelectSeq(edges, LAMBDA e : e.source # s))
       ELSE /\ toasts' = <<>>
            /\ edges' = addEdge(s, t, edges)
    /\ handler' = "onConnect"
    /\ logged' = <<>>
    /\ SaveLocalsGone
    /\ UNCHANGED <<nodes, selectedNode, showSettings, clock, focus,
                   selectionPending>>

\* The onConnect callback given a connection from the source handle of s to
\* the target handle of t (TextNode's handles carry no id, so both handles are
\* null).  The look-up reads the edge list the callback closed over at the
\* render that created it; setEdges applies addEdge to the current list.
Connect(s, t) ==
    /\ IF \E i \in 1..Len(renderedEdges) :
              /\ renderedEdges[i].source = s
              /\ renderedEdges[i].sourceHandle = "null"
       THEN /\ toasts' = <<Toast("error", MsgOneOutgoing)>>
            /\ edges' = edges
       ELSE /\ toasts' = <<>>
            /\ edges' = addEdge(s, t, edges)
    /\ handler' = "onConnect"
    /\ logged' = <<>>
    /\ SaveLocalsGone
    /\ UNCHANGED <<nodes, selectedNode, showSettings, clock, focus,
                   selectionPending>>

\* onConnect without the look-up of an existing outgoing edge.
onConnect_unchecked ==
    /\ \E s \in IdsOf(nodes), t \in IdsOf(nodes) :
           /\ edges' = addEdge(s, t, edges)
           /\ toasts' = <<>>
    /\ handler' = "onConnect"
    /\ logged' = <<>>
    /\ SaveLocalsGone
    /\ UNCHANGED <<nodes, selectedNode, showSettings, clock, focus,
                   selectionPending>>
    /\ renderedEdges' = edges'

\* onConnect: a connection dragged between two nodes on the canvas, followed
\* by the re-render that gives the next event a callback over the new list.
onConnect ==
    /\ \E s \in IdsOf(nodes), t \in IdsOf(nodes) : Connect(s, t)
    /\ renderedEdges' = edges'

\* The selections one pointer gesture can produce from the selection curN,
\* curE of reactflow's store: a click on the pane (nothing), a click on a node
\* or an edge (it alone), or a click with the multi-selection key held (it is
\* toggled in the current selection).
Gestures(ns, es, curN, curE) ==
    {<<{}, {}>>}
    \cup {<<{n}, {}>> : n \in IdsOf(ns)}
    \cup {<<{}, {e}>> : e \in IdsOf(es)}
    \cup {<<(curN \ {n}) \cup ({n} \ curN), curE>> : n \in IdsOf(ns)}
    \cup {<<curN, (curE \ {e}) \cup ({e} \ curE)>> : e \in IdsOf(es)}

\* A pointer gesture that changes the selection: reactflow hands a select
\* change for every node and edge of its store whose mark differs from the
\* chosen selection to onNodesChange and onEdgesChange, which apply it to the
\* entries of that identifier, and has the new selection to report.
onNodesChange ==
    /\ \E curN \in {IdsOf(SelectedOf(StoreNodes(nodes)))},
          curE \in {IdsOf(SelectedOf(edges))} :
           \E g \in Gestures(nodes, edges, curN, curE) :
               \E changedN \in {(curN \ g[1]) \cup (g[1] \ curN)},
                  changedE \in {(curE \ g[2]) \cup (g[2] \ curE)} :
                   /\ changedN \cup changedE # {}
                   /\ nodes' = [i \in 1..Len(nodes) |->
                           IF nodes[i].id \in changedN
                           THEN [nodes[i] EXCEPT
                                     !.selected = (nodes[i].id \in g[1])]
                           ELSE nodes[i]]
                   /\ edges' = [i \in 1..Len(edges) |->
                           IF edges[i].id \in changedE
                           THEN [edges[i] EXCEPT
                                     !.selected = (edges[i].id \in g[2])]
                           ELSE edges[i]]
    /\ selectionPending' = TRUE
    /\ handler' = "onNodesChange"
    /\ toasts' = <<>>
    /\ logged' = <<>>
    /\ SaveLocalsGone
    /\ UNCHANGED <<selectedNode, showSettings, clock, focus>>
    /\ renderedEdges' = edges'

\* params.nodes of onSelectionChange: the selected nodes of reactflow's store.
SelectionParams(ns) == SelectedOf(StoreNodes(ns))

\* onSelectionChange, called by reactflow with the selection as it is when
\* the change is reported.
onSelectionChange ==
    /\ selectionPending
    /\ LET params == SelectionParams(nodes)
       IN  IF Len(params) = 1
           THEN /\ selectedNode' = <<params[1]>>
                /\ showSettings' = TRUE
           ELSE /\ selectedNode' = <<>>
                /\ showSettings' = FALSE
    /\ selectionPending' = FALSE
    /\ handler' = "onSelectionChange"
    /\ toasts' = <<>>
    /\ logged' = <<>>
    /\ SaveLocalsGone
    /\ UNCHANGED <<nodes, edges, clock, focus>>
    /\ renderedEdges' = edges'

\* The handleNodeDataChange callback that gives the data to every node.
NodeDataChange_everyNode(nodeId, data) ==
    /\ nodes' = [i \in 1..Len(nodes) |-> [nodes[i] EXCEPT !.data = data]]
    /\ handler' = "handleNodeDataChange"
    /\ toasts' = <<>>
    /\ logged' = <<>>
    /\ SaveLocalsGone
    /\ UNCHANGED <<edges, selectedNode, showSettings, clock, focus,
                   selectionPending>>

\* The handleNodeDataChange callback given an identifier and the new data:
\* `{ ...node, data }` for the nodes with that identifier, the node itself
\* for the others.
NodeDataChange(nodeId, data) ==
    /\ nodes' = [i \in 1..Len(nodes) |->
                    IF nodes[i].id = nodeId
                    THEN [nodes[i] EXCEPT !.data = data]
                    ELSE nodes[i]]
    /\ handler' = "handleNodeDataChange"
    /\ toasts' = <<>>
    /\ logged' = <<>>
    /\ SaveLocalsGone
    /\ UNCHANGED <<edges, selectedNode, showSettings, clock, focus,
                   selectionPending>>

\* handleNodeDataChange, called by the settings panel's text area with the
\* identifier of the selected node, and the re-render that follows.
handleNodeDataChange ==
    /\ showSettings
    /\ selectedNode # <<>>
    /\ \E text \in {EditedText} :
           NodeDataChange(selectedNode[1].id, [text |-> text])
    /\ renderedEdges' = edges'

\* handleNodeDataChange called on a drawn snapshot with any identifier, one of
\* a node of the list or not.
callNodeDataChange ==
    /\ \E nodeId \in SerNodeIds :
           NodeDataChange(nodeId, [text |-> EditedText])
    /\ renderedEdges' = edges'

SpecNodeDataChange == InitSerialize /\ [][callNodeDataChange]_vars

\* handleCloseSettings that hides the panel and keeps the node.
handleCloseSettings_keepsNode ==
    /\ showSettings
    /\ selectedNode # <<>>
    /\ showSettings' = FALSE
    /\ nodes' = [i \in 1..Len(nodes) |-> [nodes[i] EXCEPT !.selected = FALSE]]
    /\ handler' = "handleCloseSettings"
    /\ toasts' = <<>>
    /\ logged' = <<>>
    /\ SaveLocalsGone
    /\ UNCHANGED <<edges, selectedNode, clock, focus>>
    /\ SelectionDue
    /\ renderedEdges' = edges'

\* handleCloseSettings, called by the settings panel's back button.
handleCloseSettings ==
    /\ showSettings
    /\ selectedNode # <<>>
    /\ showSettings' = FALSE
    /\ selectedNode' = <<>>
    /\ nodes' = [i \in 1..Len(nodes) |-> [nodes[i] EXCEPT !.selected = FALSE]]
    /\ handler' = "handleCloseSettings"
    /\ toasts' = <<>>
    /\ logged' = <<>>
    /\ SaveLocalsGone
    /\ UNCHANGED <<edges, clock, focus>>
    /\ SelectionDue
    /\ renderedEdges' = edges'

\* handleSave that serialises and logs before it looks at the verdict.
handleSave_logFirst ==
    /\ validator' = "part_005"
    /\ validation' = validateFlow(nodes, edges)
    /\ serializer' = "part_005"
    /\ serialized' = 1
    /\ flowData' = createFlowData(nodes, edges)
    /\ logged' = <<flowData'>>
    /\ toasts' = IF validation'.isValid
                 THEN <<Toast("success", MsgSaved)>>
                 ELSE <<Toast("error", validation'.errorMessage)>>
    /\ handler' = "handleSave"
    /\ UNCHANGED <<nodes, edges, roundTrip, selectedNode, showSettings, clock,
                   focus, selectionPending>>
    /\ renderedEdges' = edges'

\* handleSave with validateFlow and createFlowData of part_005.
handleSave ==
    /\ validator' = "part_005"
    /\ validation' = validateFlow(nodes, edges)
    /\ IF ~validation'.isValid
       THEN /\ toasts' = <<Toast("error", validation'.errorMessage)>>
            /\ logged' = <<>>
            /\ serializer' = "none"
            /\ serialized' = 0
            /\ flowData' = [nodes |-> <<>>, edges |-> <<>>]
       ELSE /\ serializer' = "part_005"
            /\ serialized' = 1
            /\ flowData' = createFlowData(nodes, edges)
            /\ logged' = <<flowData'>>
            /\ toasts' = <<Toast("success", MsgSaved)>>
    /\ handler' = "handleSave"
    /\ roundTrip' = [nodes |-> <<>>, edges |-> <<>>]
    /\ UNCHANGED <<nodes, edges, selectedNode, showSettings, clock, focus,
                   selectionPending>>
    /\ renderedEdges' = edges'

\* handleSave with validateFlow and createFlowData of src/utils/validation.ts.
handleSaveUtils ==
    /\ validator' = "utils"
    /\ validation' = validateFlow_utils(nodes, edges)
    /\ IF ~validation'.isValid
       THEN /\ toasts' = <<Toast("error", validation'.errorMessage)>>
            /\ logged' = <<>>
            /\ serializer' = "none"
            /\ serialized' = 0
            /\ flowData' = [nodes |-> <<>>, edges |-> <<>>]
       ELSE /\ serializer' = "utils"
            /\ serialized' = 1
            /\ flowData' = createFlowData_utils(nodes, edges)
            /\ logged' = <<flowData'>>
            /\ toasts' = <<Toast("success", MsgSaved)>>
    /\ handler' = "handleSave"
    /\ roundTrip' = [nodes |-> <<>>, edges |-> <<>>]
    /\ UNCHANGED <<nodes, edges, selectedNode, showSettings, clock, focus,
                   selectionPending>>
    /\ renderedEdges' = edges'

\* handleKeyDown that removes the selected nodes and leaves their edges.
handleKeyDown_noCascade ==
    LET selectedNodes == SelectedOf(nodes)
        selectedEdges == SelectedOf(edges)
        nodeIds == IdsOf(selectedNodes)
        edgeIds == IdsOf(selectedEdges)
    IN  /\ Len(selectedNodes) > 0 \/ Len(selectedEdges) > 0
        /\ nodes' = IF Len(selectedNodes) > 0
                    THEN SelectSeq(nodes, LAMBDA n : n.id \notin nodeIds)
                    ELSE nodes
        /\ edges' = IF Len(selectedEdges) > 0
                    THEN SelectSeq(edges, LAMBDA e : e.id \notin edgeIds)
                    ELSE edges
        /\ IF /\ Len(selectedNodes) > 0
              /\ selectedNode # <<>>
              /\ selectedNode[1].id \in nodeIds
           THEN selectedNode' = <<>> /\ showSettings' = FALSE
           ELSE UNCHANGED <<selectedNode, showSettings>>
        /\ toasts' =
               (IF Len(selectedNodes) > 0
                THEN <<Toast("success", MsgDeletedNodes(Len(selectedNodes)))>>
                ELSE <<>>)
               \o (IF Len(selectedEdges) > 0
                   THEN <<Toast("success",
                                MsgDeletedEdges(Len(selectedEdges)))>>
                   ELSE <<>>)
        /\ handler' = "handleKeyDown"
        /\ logged' = <<>>
        /\ SaveLocalsGone
        /\ UNCHANGED <<clock, focus>>
        /\ SelectionDue
        /\ renderedEdges' = edges'

\* What document.activeElement can be: the page body, or an element the
\* handler treats as a text field.
TextFields == {"INPUT", "TEXTAREA", "contentEditable"}

FocusKinds == {"BODY"} \cup TextFields

\* The early return of handleKeyDown: nothing is updated, nothing is shown.
KeyIgnored ==
    /\ handler' = "handleKeyDown"
    /\ toasts' = <<>>
    /\ logged' = <<>>
    /\ SaveLocalsGone
    /\ UNCHANGED <<nodes, edges, selectedNode, showSettings, clock, focus,
                   selectionPending>>
    /\ renderedEdges' = edges'

\* The settings panel's node is never taken to be among the removed ones.
PanelNodeAmong_never(nodeIds) == FALSE

\* The node held as selectedNode is one of those being removed.
PanelNodeAmong(nodeIds) ==
    selectedNode # <<>> /\ selectedNode[1].id \in nodeIds

\* The rest of handleKeyDown, past its early returns: the selected nodes go
\* together with every edge that touches one of them, then the selected edges
\* go.  With nothing selected the handler returns and no step is taken.
DeleteSelection ==
    LET selectedNodes == SelectedOf(nodes)
        selectedEdges == SelectedOf(edges)
        nodeIds == IdsOf(selectedNodes)
        edgeIds == IdsOf(selectedEdges)
        afterNodes == IF Len(selectedNodes) > 0
                      THEN SelectSeq(edges, LAMBDA e :
                               /\ e.source \notin nodeIds
                               /\ e.target \notin nodeIds)
                      ELSE edges
    IN  /\ Len(selectedNodes) > 0 \/ Len(selectedEdges) > 0
        /\ nodes' = IF Len(selectedNodes) > 0
                    THEN SelectSeq(nodes, LAMBDA n : n.id \notin nodeIds)
                    ELSE nodes
        /\ edges' = IF Len(selectedEdges) > 0
                    THEN SelectSeq(afterNodes, LAMBDA e : e.id \notin edgeIds)
                    ELSE afterNodes
        /\ IF Len(selectedNodes) > 0 /\ PanelNodeAmong(nodeIds)
           THEN selectedNode' = <<>> /\ showSettings' = FALSE
           ELSE UNCHANGED <<selectedNode, showSettings>>
        /\ toasts' =
               (IF Len(selectedNodes) > 0
                THEN <<Toast("success", MsgDeletedNodes(Len(selectedNodes)))>>
                ELSE <<>>)
               \o (IF Len(selectedEdges) > 0
                   THEN <<Toast("success",
                                MsgDeletedEdges(Len(selectedEdges)))>>
                   ELSE <<>>)
        /\ handler' = "handleKeyDown"
        /\ logged' = <<>>
        /\ SaveLocalsGone
        /\ UNCHANGED <<clock, focus>>
        /\ SelectionDue
        /\ renderedEdges' = edges'

\* handleKeyDown that looks for INPUT and contentEditable only.
handleKeyDown_textareaMissed ==
    IF focus \in {"INPUT", "contentEditable"}
    THEN KeyIgnored
    ELSE DeleteSelection

\* handleKeyDown for a press of Delete or Backspace (any other key returns at
\* once and is not an event of the model): ignored while the focus is in a
\* text field, else the selection is deleted.
handleKeyDown ==
    IF focus \in TextFields
    THEN KeyIgnored
    ELSE DeleteSelection

\* The focus moves to another element of the page.
focusChange ==
    /\ \E f \in FocusKinds \ {focus} : focus' = f
    /\ UNCHANGED <<nodes, edges, valVars, serVars, selectedNode, showSettings,
                   clock, handler, toasts, logged, selectionPending,
                   renderedEdges>>

NextApp ==
    \/ onDrop
    \/ onConnect
    \/ onNodesChange
    \/ onSelectionChange
    \/ handleNodeDataChange
    \/ handleCloseSettings
    \/ handleSave
    \/ handleSaveUtils
    \/ handleKeyDown

SpecApp == InitApp /\ [][NextApp]_vars

\* onConnect handled while the update of an earlier onConnect is still
\* waiting for its render: the callback is the one that closed over the edge
\* list of the last render.
onConnectBeforeRender ==
    /\ \E s \in IdsOf(nodes), t \in IdsOf(nodes) : Connect(s, t)
    /\ UNCHANGED renderedEdges

\* The component re-renders: useCallback makes an onConnect over the current
\* edge list.
render ==
    /\ renderedEdges # edges
    /\ renderedEdges' = edges
    /\ UNCHANGED <<nodes, edges, valVars, serVars, selectedNode, showSettings,
                   clock, handler, toasts, logged, focus, selectionPending>>

\* The canvas with connections that may be handled before the re-render.
NextRace ==
    \/ onDrop
    \/ onConnectBeforeRender
    \/ render

SpecRace == InitApp /\ [][NextRace]_vars

\* The canvas alone: nodes dropped, connected, selected and deleted.
NextCanvas ==
    \/ onDrop
    \/ onConnect
    \/ onNodesChange
    \/ onSelectionChange
    \/ handleKeyDown

SpecCanvas == InitApp /\ [][NextCanvas]_vars

\* The canvas and the Save button.
NextSave ==
    \/ onDrop
    \/ onConnect
    \/ onNodesChange
    \/ onSelectionChange
    \/ handleKeyDown
    \/ handleSave
    \/ handleSaveUtils

SpecSave == InitApp /\ [][NextSave]_vars

\* The canvas and the settings panel, opened by a selection and closed by its
\* back button or by a delete.
NextPanel ==
    \/ onDrop
    \/ onConnect
    \/ onNodesChange
    \/ onSelectionChange
    \/ handleKeyDown
    \/ handleCloseSettings

SpecPanel == InitApp /\ [][NextPanel]_vars

\* The canvas with the keyboard focus moving about the page.
NextKeys ==
    \/ onDrop
    \/ onConnect
    \/ onNodesChange
    \/ onSelectionChange
    \/ focusChange
    \/ handleKeyDown

SpecKeys == InitApp /\ [][NextKeys]_vars

(* ------------------------- claims about the App ------------------------ *)

\* What the validator that handleSave called says of the lists it was given.
SaveVerdict ==
    IF validator' = "part_005"
    THEN validateFlow(nodes, edges)
    ELSE validateFlow_utils(nodes, edges)

\* C18: every run of handleSave calls validateFlow on the current nodes and
\* edges and leaves both lists as they were; when the validator accepts, the
\* serializer is called once, its result is written to the console and a
\* success notification is shown; when the validator rejects, its reason is
\* shown as an error, the serializer is not called and nothing is written.
C18_ValidateThenSave ==
    [][handler' = "handleSave" =>
           /\ nodes' = nodes
           /\ edges' = edges
           /\ validator' # "none"
           /\ SaveVerdict.isValid =>
                  /\ serialized' = 1
                  /\ flowData' \in {createFlowData(nodes, edges),
                                    createFlowData_utils(nodes, edges)}
                  /\ logged' = <<flowData'>>
                  /\ toasts' = <<Toast("success", MsgSaved)>>
           /\ ~SaveVerdict.isValid =>
                  /\ serialized' = 0
                  /\ flowData' = [nodes |-> <<>>, edges |-> <<>>]
                  /\ logged' = <<>>
                  /\ toasts' = <<Toast("error", SaveVerdict.errorMessage)>>
    ]_vars

\* A save of two unconnected nodes was refused: the reason is on screen and
\* nothing was written.
C18_Witness ==
    /\ handler = "handleSave"
    /\ Len(nodes) = 2
    /\ edges = <<>>
    /\ ~validation.isValid
    /\ toasts = <<Toast("error", validation.errorMessage)>>
    /\ logged = <<>>

\* A save of a two-node chain went through: the flow data is on the console.
C18_WitnessAccepted ==
    /\ handler = "handleSave"
    /\ Len(nodes) = 2
    /\ Len(edges) = 1
    /\ validation.isValid
    /\ logged = <<flowData>>
    /\ Len(flowData.nodes) = 2
    /\ toasts = <<Toast("success", MsgSaved)>>

\* C19: in every state the editor reaches from the empty flow, no two entries
\* of the edge list leave the same source handle of the same source node.
C19_OneOutgoingPerHandle ==
    \A i, j \in 1..Len(edges) :
        (/\ edges[i].source = edges[j].source
         /\ edges[i].sourceHandle = edges[j].sourceHandle) => i = j

\* A second connection from a node that already has an outgoing edge was
\* asked for and refused, on a canvas where a node was edited and selected.
C19_Witness ==
    /\ handler = "onConnect"
    /\ toasts = <<Toast("error", MsgOneOutgoing)>>
    /\ Len(edges) >= 1
    /\ \E i \in 1..Len(nodes) :
           nodes[i].data.text = EditedText /\ nodes[i].selected

\* C20: in every state the editor reaches, the source and the target of every
\* edge are identifiers of nodes in the node list; in particular, once a
\* delete key press has removed the selected nodes no edge names one of them.
C20_EdgesNameCurrentNodes ==
    \A i \in 1..Len(edges) :
        /\ edges[i].source \in IdsOf(nodes)
        /\ edges[i].target \in IdsOf(nodes)

\* A delete key press removed one node; the edge of the node that stayed is
\* still there.
C20_Witness ==
    /\ handler = "handleKeyDown"
    /\ toasts = <<Toast("success", MsgDeletedNodes(1))>>
    /\ Len(nodes) = 1
    /\ Len(edges) = 1
    /\ edges[1].source = nodes[1].id

\* C21: in every state the editor reaches, no two entries of the node list
\* carry the same identifier, two drops at one clock reading included.
C21_UniqueNodeIds == UniqueIds(nodes)

\* Some entry of the edge list leaves the (only) source handle of node s.
HasOutgoing(es, s) ==
    \E i \in 1..Len(es) : es[i].source = s /\ es[i].sourceHandle = "null"

\* C22: a connection s -> t asked for while no edge leaves the source handle
\* of s is accepted, whatever already arrives at t: the edge list becomes the
\* old list followed by the edge s -> t, and no error is shown.
C22_TargetAcceptsMany ==
    [][\A s, t \in IdsOf(nodes) :
           (Connect(s, t) /\ ~HasOutgoing(edges, s)) =>
               /\ Len(edges') = Len(edges) + 1
               /\ SubSeq(edges', 1, Len(edges)) = edges
               /\ edges'[Len(edges')].source = s
               /\ edges'[Len(edges')].target = t
               /\ toasts' = <<>>
    ]_vars

\* The edge added last arrives at a node that an earlier edge arrives at too.
C22_Witness ==
    /\ handler = "onConnect"
    /\ toasts = <<>>
    /\ Len(edges) >= 2
    /\ \E i \in 1..(Len(edges) - 1) :
           edges[i].target = edges[Len(edges)].target

\* C23: a press of Delete or Backspace while the focus is in an INPUT, a
\* TEXTAREA or a contentEditable element leaves the node list, the edge list,
\* the selected node and the visibility of the settings panel as they were.
C23_NoDeleteWhileTyping ==
    [][(handleKeyDown /\ focus \in TextFields) =>
           UNCHANGED <<nodes, edges, selectedNode, showSettings>>]_vars

\* The key was pressed in the text area with a node and an edge selected, and
\* both are still there.
C23_Witness ==
    /\ handler = "handleKeyDown"
    /\ focus = "TEXTAREA"
    /\ toasts = <<>>
    /\ \E i \in 1..Len(nodes) : nodes[i].selected
    /\ \E i \in 1..Len(edges) : edges[i].selected

\* C24: the settings panel is never open on a node that is gone: a node held
\* as selectedNode is in the node list, and the panel is shown only while such
\* a node is held; so a delete that removes that node leaves selectedNode null
\* and the panel hidden.
C24_PanelClosesWithItsNode ==
    /\ selectedNode # <<>> => selectedNode[1].id \in IdsOf(nodes)
    /\ showSettings => selectedNode # <<>>

\* The one selected node, which the panel was open on, was deleted while
\* another node stayed; nothing is held and the panel is hidden.
C24_Witness ==
    /\ handler = "handleKeyDown"
    /\ toasts = <<Toast("success", MsgDeletedNodes(1))>>
    /\ Len(nodes) = 1
    /\ selectedNode = <<>>
    /\ showSettings = FALSE

\* C25: handleNodeDataChange(id, data) gives the data to the nodes whose
\* identifier is id and keeps their id, type and position; every other node,
\* the length and order of the node list and the edge list stay as they were;
\* with no node of that identifier, the node list itself is unchanged.
C25_EditTouchesOnlyItsNode ==
    [][\A nodeId \in SerNodeIds :
           NodeDataChange(nodeId, [text |-> EditedText]) =>
               /\ Len(nodes') = Len(nodes)
               /\ \A i \in 1..Len(nodes) :
                      IF nodes[i].id = nodeId
                      THEN /\ nodes'[i].data = [text |-> EditedText]
                           /\ nodes'[i].id = nodes[i].id
                           /\ nodes'[i].type = nodes[i].type
                           /\ nodes'[i].position = nodes[i].position
                      ELSE nodes'[i] = nodes[i]
               /\ edges' = edges
               /\ (nodeId \notin IdsOf(nodes) => nodes' = nodes)
    ]_vars

\* One of two nodes has the typed text, the other still has the text it was
\* dropped with.
C25_Witness ==
    /\ handler = "handleNodeDataChange"
    /\ Len(nodes) = 2
    /\ nodes[1].data.text = EditedText
    /\ nodes[2].data.text = MkNode(nodes[2].id).data.text
    /\ nodes[2].data.text # EditedText
    /\ Len(edges) = 2

\* The callback ran with an identifier no node has: every node has the text it
\* was dropped with.
C25_WitnessNoSuchNode ==
    /\ handler = "handleNodeDataChange"
    /\ Len(nodes) = 2
    /\ \A i \in 1..Len(nodes) : nodes[i] = MkNode(nodes[i].id)

\* C26: a connection s -> t asked for while an edge already leaves the source
\* handle of s changes nothing: the edge list is exactly the list it was, and
\* the error is shown.
C26_RejectedConnectChangesNothing ==
    [][\A s, t \in IdsOf(nodes) :
           (Connect(s, t) /\ HasOutgoing(edges, s)) =>
               /\ edges' = edges
               /\ toasts' = <<Toast("error", MsgOneOutgoing)>>
    ]_vars

\* With two edges on the canvas a third connection was refused.
C26_Witness ==
    /\ handler = "onConnect"
    /\ toasts = <<Toast("error", MsgOneOutgoing)>>
    /\ Len(edges) = 2
    /\ Len(nodes) = 2

\* C27: no node has two edges leaving its source handle, also when connect
\* requests are handled by a callback that closed over an edge list older
\* than the one setEdges appends to.
C27_OneOutgoingBeforeRender ==
    \A s \in IdsOf(nodes) :
        Cardinality({i \in 1..Len(edges) :
                         /\ edges[i].source = s
                         /\ edges[i].sourceHandle = "null"}) <= 1

\* Two requests for the same source and target before a re-render leave one
\* edge: addEdge returns the list it was given when it holds the connection.
C27_SameTargetAbsorbed ==
    \A i, j \in 1..Len(edges) :
        (/\ edges[i].source = edges[j].source
         /\ edges[i].target = edges[j].target) => i = j

\* C28: in every state of the editor the settings panel is shown exactly when
\* a node is held as selectedNode.
C28_PanelShownIffNodeHeld == showSettings <=> (selectedNode # <<>>)

\* The panel was closed with its back button while two nodes are on the
\* canvas: nothing is held, nothing is shown, no node is selected.
C28_Witness ==
    /\ handler = "handleCloseSettings"
    /\ Len(nodes) = 2
    /\ showSettings = FALSE
    /\ selectedNode = <<>>
    /\ \A i \in 1..Len(nodes) : ~nodes[i].selected

\* One node is selected, held and shown in the panel.
C28_WitnessShown ==
    /\ handler = "onSelectionChange"
    /\ showSettings
    /\ selectedNode # <<>>
    /\ Len(SelectedOf(nodes)) = 1
    /\ selectedNode[1] = SelectedOf(nodes)[1]

(* ---------------------- the two implementations ------------------------ *)

\* C29: whatever validateFlow of src/utils/validation.ts rejects, validateFlow
\* of part_005 rejects as well (what part_005 accepts, the other accepts), and
\* the two createFlowData return equal outputs on the same lists.
C29_UtilsRefinedByPart005 ==
    /\ (validator = "utils" /\ ~Accepted) =>
           ~validateFlow(nodes, edges).isValid
    /\ (validator = "part_005" /\ Accepted) =>
           validateFlow_utils(nodes, edges).isValid
    /\ createFlowData(nodes, edges) = createFlowData_utils(nodes, edges)

\* The entry-point validator rejected a flow with every node in an edge and
\* two entry nodes; part_005 rejects it for its entry nodes.
C29_Witness ==
    /\ validator = "utils"
    /\ RejectedWith(MsgGeneric)
    /\ WellFormed(nodes, edges)
    /\ validateFlow(nodes, edges) = Invalid(MsgMultiEntry(2))
    /\ createFlowData_utils(nodes, edges).nodes # nodes

\* The strengthening is strict: part_005 rejected a flow of the documented
\* domain that the entry-point validator accepts.
C29_WitnessStrict ==
    /\ validator = "part_005"
    /\ ~Accepted
    /\ WellFormed(nodes, edges)
    /\ validateFlow_utils(nodes, edges).isValid

\* The two createFlowData agree on rendered nodes and selected edges too.
C29_SerializersAgree ==
    createFlowData(nodes, edges) = createFlowData_utils(nodes, edges)

\* C30: in a snapshot of two or more uniquely identified nodes of which
\* exactly one is in no edge, the connected set is not empty, and validateFlow
\* of part_005 rejects with the single-disconnected-node reason: the case of
\* one disconnected node and an empty connected set does not arise.
C30_SingleOrphanAlwaysCaught ==
    (/\ Len(nodes) >= 2
     /\ UniqueIds(nodes)
     /\ Cardinality(InNoEdge(nodes, edges)) = 1) =>
        /\ connectedNodeIds(edges) # {}
        /\ disconnectedCount(nodes, edges) = 1
        /\ validator = "part_005" => RejectedWith(MsgSingleDisconnected)

\* Three uniquely identified nodes, one of them in no edge, rejected by
\* part_005 for that node.
C30_Witness ==
    /\ validator = "part_005"
    /\ Len(nodes) = 3
    /\ UniqueIds(nodes)
    /\ Cardinality(InNoEdge(nodes, edges)) = 1
    /\ Len(edges) >= 1
    /\ RejectedWith(MsgSingleDisconnected)

====
